---- MODULE Spec2Model ----
(***************************************************************************)
(* The MatrixAdd / MatrixAddGrad custom operator of matrix_add_op.cc:      *)
(* op registration (attribute constraint, shape function), the kernel      *)
(* registry, kernel construction, and the four Compute methods (forward    *)
(* and gradient, CPU and GPU).                                             *)
(*                                                                         *)
(* Element values and the bias are fixed-point numbers counted in 1/Unit:  *)
(* the integer 3 stands for 3/Unit.  A whole number v is v * Unit.         *)
(* A tensor is [shape |-> <<d1..dk>>, data |-> flat row-major sequence].   *)
(* A shape descriptor of the shape function is [rank |-> r, dims |-> s],   *)
(* rank = UnknownRank and dims = <<>> when the rank is not known, a        *)
(* dimension = UnknownDim when it is not known.                            *)
(***************************************************************************)
EXTENDS Integers, Sequences, FiniteSets, TLC

\* ---------------------------------------------------------------- bounds
MaxDim == 2
MaxElems == 4
Unit == 2

\* -------------------------------------------------------------- universe
UnknownDim == 0 - 1
UnknownRank == 0 - 1
RequiredRank == 4

Devices == {"CPU", "GPU"}
\* element types a graph node may ask for: the three registered ones, one
\* that satisfies "T: realnumbertype" but has no kernel, one that does not
DTypes == {"int32", "float", "double", "int64", "complex64"}
RealNumberTypes == {"int32", "float", "double", "int64"}
\* bias attribute values in 1/Unit: 0, 1/Unit, 1
BiasValues == {0, 1, Unit}
Seeds == {0 - 2, 1}
GarbageValues == {7 * Unit}

RECURSIVE Prod(_)
Prod(s) ==
    IF s = <<>> THEN 1 ELSE Head(s) * Prod(Tail(s))

\* Tensor::NumElements / TensorShape::num_elements
NumElements(shape) ==
    Prod(shape)

\* concrete shapes of rank r with every dimension in 1..MaxDim and at most
\* MaxElems elements
ShapesOfRank(r) ==
    {s \in [1..r -> 1..MaxDim] : NumElements(s) <= MaxElems}

RuntimeShapes ==
    ShapesOfRank(RequiredRank)

KnownDesc(s) ==
    [rank |-> Len(s), dims |-> s]

UnknownShape ==
    [rank |-> UnknownRank, dims |-> <<>>]

\* a rank-4 descriptor whose batch dimension is left open
DynBatch(s) ==
    [rank |-> Len(s), dims |-> [s EXCEPT ![1] = UnknownDim]]

AllUnknown4 ==
    [rank |-> RequiredRank, dims |-> [i \in 1..RequiredRank |-> UnknownDim]]

\* descriptors of the shape-function specification: any rank-3 or rank-4
\* descriptor over unknown and 1..MaxDim, and the unknown-rank descriptor
ShapeFnDescs ==
    {UnknownShape}
        \cup {KnownDesc(s) : s \in [1..(RequiredRank - 1) -> {UnknownDim} \cup 1..MaxDim]}
        \cup {KnownDesc(s) : s \in [1..RequiredRank -> {UnknownDim} \cup 1..MaxDim]}

\* descriptors of graph inputs in the pipeline specification
GraphDescs ==
    {KnownDesc(s) : s \in RuntimeShapes}
        \cup {DynBatch(s) : s \in RuntimeShapes}
        \cup {KnownDesc(s) : s \in ShapesOfRank(RequiredRank - 1)}
        \cup {UnknownShape}

\* shapes of the tensors a call may be fed
FeedShapes ==
    RuntimeShapes \cup ShapesOfRank(RequiredRank - 1)

\* a fed tensor has to fit the static descriptor of the graph input
Compatible(desc, shape) ==
    \/ desc.rank = UnknownRank
    \/ /\ desc.rank = Len(shape)
       /\ \A i \in 1..Len(shape) :
            desc.dims[i] = UnknownDim \/ desc.dims[i] = shape[i]

TensorOf(shape, seed) ==
    [shape |-> shape,
     data  |-> [k \in 1..NumElements(shape) |-> (seed + k - 1) * Unit]]

\* ------------------------------------------------ shape function (l.25-52)
\* InferenceContext::WithRank(shape, rank, &out)
WithRank(desc, rank) ==
    IF desc.rank = UnknownRank
        THEN [ok |-> TRUE,
              out |-> [rank |-> rank, dims |-> [i \in 1..rank |-> UnknownDim]]]
    ELSE IF desc.rank = rank
        THEN [ok |-> TRUE, out |-> desc]
    ELSE [ok |-> FALSE, out |-> desc]

MergeDim(x, y) ==
    IF x = UnknownDim THEN [ok |-> TRUE, out |-> y]
    ELSE IF y = UnknownDim THEN [ok |-> TRUE, out |-> x]
    ELSE [ok |-> x = y, out |-> x]

\* InferenceContext::Merge(s0, s1, &out)
Merge(a, b) ==
    IF a.rank = UnknownRank THEN [ok |-> TRUE, out |-> b]
    ELSE IF b.rank = UnknownRank THEN [ok |-> TRUE, out |-> a]
    ELSE IF a.rank # b.rank THEN [ok |-> FALSE, out |-> a]
    ELSE [ok  |-> \A i \in 1..a.rank : MergeDim(a.dims[i], b.dims[i]).ok,
          out |-> [rank |-> a.rank,
                   dims |-> [i \in 1..a.rank |-> MergeDim(a.dims[i], b.dims[i]).out]]]

\* InferenceContext::Dim(shape, idx), idx counted from 1 here
Dim(desc, idx) ==
    IF desc.rank = UnknownRank THEN UnknownDim ELSE desc.dims[idx]

NoDesc ==
    [rank |-> 0, dims |-> <<>>]

\* the lambda given to SetShapeFn: the status and the output set by set_output
MatrixAddShapeFnNoRankB(a, b) ==
    IF ~WithRank(a, RequiredRank).ok THEN [status |-> "ShapeMismatch", out |-> NoDesc]
    ELSE IF ~Merge(a, b).ok THEN [status |-> "ShapeMismatch", out |-> NoDesc]
    ELSE [status |-> "OK",
          out |-> [rank |-> RequiredRank,
                   dims |-> <<Dim(a, 1), Dim(a, 2), Dim(a, 3), Dim(a, 4)>>]]

MatrixAddShapeFn(a, b) ==
    IF ~WithRank(a, RequiredRank).ok THEN [status |-> "ShapeMismatch", out |-> NoDesc]
    ELSE IF ~WithRank(b, RequiredRank).ok THEN [status |-> "ShapeMismatch", out |-> NoDesc]
    ELSE IF ~Merge(a, b).ok THEN [status |-> "ShapeMismatch", out |-> NoDesc]
    ELSE [status |-> "OK",
          out |-> [rank |-> RequiredRank,
                   dims |-> <<Dim(a, 1), Dim(a, 2), Dim(a, 3), Dim(a, 4)>>]]

\* MatrixAddGrad registers no shape function: nothing is checked, the output
\* shapes stay unknown
ShapeFnOf(opName, descs) ==
    IF opName = "MatrixAdd"
        THEN MatrixAddShapeFn(descs[1], descs[2])
        ELSE [status |-> "OK", out |-> UnknownShape]

\* ------------------------------------------- kernel registry (l.236-253)
\* TypeConstraint<type>("T"): the DataType of a C++ element type
DataTypeOf(type) ==
    CASE type = "int" -> "int32"
      [] type = "float" -> "float"
      [] type = "double" -> "double"

REGISTER_MYCOPY_KERNELS_NoGpuGrad(type) ==
    << [op |-> "MatrixAdd", device |-> "CPU", dtype |-> DataTypeOf(type),
        kernel |-> "MatrixAddOp<CPU>"],
       [op |-> "MatrixAdd", device |-> "GPU", dtype |-> DataTypeOf(type),
        kernel |-> "MatrixAddOp<GPU>"],
       [op |-> "MatrixAddGrad", device |-> "CPU", dtype |-> DataTypeOf(type),
        kernel |-> "MatrixAddGradOp<CPU>"],
       [op |-> "MatrixAddGrad", device |-> "CPU", dtype |-> DataTypeOf(type),
        kernel |-> "MatrixAddGradOp<GPU>"] >>

\* the four REGISTER_KERNEL_BUILDER lines of one macro expansion
REGISTER_MYCOPY_KERNELS(type) ==
    << [op |-> "MatrixAdd", device |-> "CPU", dtype |-> DataTypeOf(type),
        kernel |-> "MatrixAddOp<CPU>"],
       [op |-> "MatrixAdd", device |-> "GPU", dtype |-> DataTypeOf(type),
        kernel |-> "MatrixAddOp<GPU>"],
       [op |-> "MatrixAddGrad", device |-> "CPU", dtype |-> DataTypeOf(type),
        kernel |-> "MatrixAddGradOp<CPU>"],
       [op |-> "MatrixAddGrad", device |-> "GPU", dtype |-> DataTypeOf(type),
        kernel |-> "MatrixAddGradOp<GPU>"] >>

\* the registrations in the order the file makes them
KernelRegistry ==
    REGISTER_MYCOPY_KERNELS("int")
        \o REGISTER_MYCOPY_KERNELS("float")
        \o REGISTER_MYCOPY_KERNELS("double")

\* the registrations that match a node
Registrations(opName, dev, dt) ==
    {i \in DOMAIN KernelRegistry :
        /\ KernelRegistry[i].op = opName
        /\ KernelRegistry[i].device = dev
        /\ KernelRegistry[i].dtype = dt}

\* .Attr("T: realnumbertype") and the kernel lookup of the node: the kernel
\* class to run, or no kernel
SelectKernel(opName, dev, dt) ==
    IF dt \notin RealNumberTypes THEN "none"
    ELSE IF Cardinality(Registrations(opName, dev, dt)) # 1 THEN "none"
    ELSE KernelRegistry[CHOOSE i \in Registrations(opName, dev, dt) : TRUE].kernel

\* ------------------------------------------------------------------ state
VARIABLES
    op,           \* the node's operator name
    device,       \* the device the node is placed on
    dtype,        \* attribute T
    attrBias,     \* attribute bias
    inDesc,       \* static shape descriptors of the node's inputs
    typeStatus,   \* "pending", "OK", "TypeNotSupported"
    shapeStatus,  \* "pending", "OK", "ShapeMismatch"
    outDesc,      \* the output descriptor the shape function set
    kernelClass,  \* the kernel class the registry binds, "none" when none
    created,      \* the OpKernel instance is constructed
    bias_,        \* the instance's member bias_: <<>> until it is set
    pc,           \* per Compute call: where the call is
    inputs,       \* per call: the input tensors of the OpKernelContext
    heap,         \* per call: the buffers allocate_output has handed out
    outputs,      \* per call: output slot -> buffer (0 = nullptr)
    status,       \* per call: the OpKernelContext's status
    allocLog,     \* per call: the allocate_output requests made
    launched,     \* per call: number of device kernel launches
    ub            \* per call: the call ran into undefined behaviour

vars ==
    <<op, device, dtype, attrBias, inDesc, typeStatus, shapeStatus, outDesc,
      kernelClass, created, bias_, pc, inputs, heap, outputs, status,
      allocLog, launched, ub>>

graphVars ==
    <<op, device, dtype, attrBias, inDesc>>

callVars ==
    <<pc, inputs, heap, outputs, status, allocLog, launched, ub>>

Calls ==
    DOMAIN pc

NoInputs ==
    <<>>

InitCalls(cs) ==
    /\ pc = [c \in cs |-> "idle"]
    /\ inputs = [c \in cs |-> NoInputs]
    /\ heap = [c \in cs |-> <<>>]
    /\ outputs = [c \in cs |-> <<0, 0>>]
    /\ status = [c \in cs |-> "OK"]
    /\ allocLog = [c \in cs |-> <<>>]
    /\ launched = [c \in cs |-> 0]
    /\ ub = [c \in cs |-> FALSE]

InitNode ==
    /\ typeStatus = "pending"
    /\ shapeStatus = "pending"
    /\ outDesc = NoDesc
    /\ kernelClass = "none"
    /\ created = FALSE
    /\ bias_ = <<>>

\* a graph node of either operator, one call
Init ==
    /\ op \in {"MatrixAdd", "MatrixAddGrad"}
    /\ device \in Devices
    /\ dtype \in DTypes
    /\ attrBias \in BiasValues
    /\ IF op = "MatrixAdd"
          THEN inDesc \in [1..2 -> GraphDescs]
          ELSE inDesc = [i \in 1..3 |-> AllUnknown4]
    /\ InitNode
    /\ InitCalls({1})

\* ------------------------------------------------------ graph construction
\* the attribute constraint and the kernel lookup
TypeCheck ==
    /\ typeStatus = "pending"
    /\ kernelClass' = SelectKernel(op, device, dtype)
    /\ typeStatus' = IF kernelClass' = "none" THEN "TypeNotSupported" ELSE "OK"
    /\ UNCHANGED <<graphVars, shapeStatus, outDesc, created, bias_, callVars>>

\* the shape function of the op, run once per node
ShapeInference ==
    /\ shapeStatus = "pending"
    /\ shapeStatus' = ShapeFnOf(op, inDesc).status
    /\ outDesc' = ShapeFnOf(op, inDesc).out
    /\ UNCHANGED <<graphVars, typeStatus, kernelClass, created, bias_, callVars>>

\* MatrixAddOp::MatrixAddOp reads the attribute into bias_ (l.84-88, 135-139);
\* MatrixAddGradOp::MatrixAddGradOp has no member to set (l.174-176, 211-213)
Construct ==
    /\ typeStatus = "OK"
    /\ shapeStatus = "OK"
    /\ ~created
    /\ created' = TRUE
    /\ bias_' = IF op = "MatrixAdd" THEN <<attrBias>> ELSE <<>>
    /\ UNCHANGED <<graphVars, typeStatus, shapeStatus, outDesc, kernelClass, callVars>>

FeedShapesFor(desc) ==
    {s \in FeedShapes : Compatible(desc, s)}

\* the lists of input shapes that fit the descriptors descs, one per input
FeedShapeLists(descs) ==
    IF Len(descs) = 2
        THEN {<<s1, s2>> : s1 \in FeedShapesFor(descs[1]), s2 \in FeedShapesFor(descs[2])}
        ELSE {<<s1, s2, s3>> : s1 \in FeedShapesFor(descs[1]),
                               s2 \in FeedShapesFor(descs[2]),
                               s3 \in FeedShapesFor(descs[3])}

\* the tensors a call may be given for input shapes ts: MatrixAdd reads the
\* elements of both inputs, MatrixAddGrad those of the gradient only
FeedData(opName, ts) ==
    IF opName = "MatrixAdd"
        THEN {<<TensorOf(ts[1], sa), TensorOf(ts[2], sb)>> : sa \in Seeds, sb \in Seeds}
        ELSE {<<TensorOf(ts[1], sg), TensorOf(ts[2], 0), TensorOf(ts[3], 0)>> : sg \in Seeds}

\* the host runtime calls Compute with input tensors that fit the node's
\* static input shapes
Feed(c) ==
    /\ created
    /\ pc[c] = "idle"
    /\ \E ts \in FeedShapeLists(inDesc) :
        \E d \in FeedData(op, ts) : inputs' = [inputs EXCEPT ![c] = d]
    /\ pc' = [pc EXCEPT ![c] = "enter"]
    /\ UNCHANGED <<graphVars, typeStatus, shapeStatus, outDesc, kernelClass,
                   created, bias_, heap, outputs, status, allocLog, launched, ub>>

\* ------------------------------------------------------- element arithmetic
\* conversion of a real value to the element type: to int32 it truncates
\* toward zero, float and double keep the value
ToDtype(dt, v) ==
    IF dt = "int32"
        THEN (IF v >= 0 THEN (v \div Unit) * Unit ELSE 0 - (((0 - v) \div Unit) * Unit))
        ELSE v

\* a + b + bias_ assigned to a Dtype element (l.122): for int the sum is
\* formed in float and converted back on assignment
AddElement(dt, a, b, bias) ==
    ToDtype(dt, a + b + bias)

\* row-major offset of the 0-based coordinates idx in a rank-4 shape
Offset(shape, idx) ==
    ((idx[1] * shape[2] + idx[2]) * shape[3] + idx[3]) * shape[4] + idx[4]

InBounds(shape, idx) ==
    \A k \in 1..4 : idx[k] < shape[k]

\* the coordinates the nested loops of l.118-121 visit
LoopCoords(shape) ==
    {idx \in [1..4 -> 0..(MaxDim - 1)] : InBounds(shape, idx)}

\* ------------------------------------------------------------ allocation
\* a fresh buffer: no element holds a defined value yet
NewBuffer(shape) ==
    [shape |-> shape,
     data  |-> [k \in 1..NumElements(shape) |-> 0],
     init  |-> [k \in 1..NumElements(shape) |-> FALSE]]

\* context->allocate_output(slot - 1, shape, &ptr); ok is the host's answer
AllocateOutput(c, slot, shape, ok) ==
    /\ allocLog' = [allocLog EXCEPT ![c] = Append(@, [slot |-> slot, shape |-> shape, ok |-> ok])]
    /\ IF ok
          THEN /\ heap' = [heap EXCEPT ![c] = Append(@, NewBuffer(shape))]
               /\ outputs' = [outputs EXCEPT ![c][slot] = Len(heap[c]) + 1]
               /\ status' = status
          ELSE /\ heap' = heap
               /\ outputs' = outputs
               /\ status' = [status EXCEPT ![c] = "AllocationFailure"]

OpRequiresOkRetry(ok, next, here) ==
    IF ok THEN next ELSE here

\* OP_REQUIRES_OK(context, ...): go on when the status is OK, else return
OpRequiresOk(ok, next, here) ==
    IF ok THEN next ELSE "done"

\* Eigen's setZero on the flat view
SetZeroSkipped(buf) ==
    buf

SetZero(buf) ==
    [buf EXCEPT !.data = [k \in DOMAIN buf.data |-> 0],
                !.init = [k \in DOMAIN buf.init |-> TRUE]]

nodeVars ==
    <<graphVars, typeStatus, shapeStatus, outDesc, kernelClass, created>>

\* what running into undefined behaviour can end in: the process dies, or
\* the call goes on with whatever the stray access gave
UbOutcomes(isUb) ==
    IF isUb THEN {"crash", "silent"} ELSE {"none"}

\* an unchecked read of tensor t at coordinates idx: past the buffer it
\* yields garbage, inside the buffer the element at the computed offset
ReadAt(t, idx, garbage) ==
    IF Offset(t.shape, idx) < NumElements(t.shape)
        THEN t.data[Offset(t.shape, idx) + 1]
        ELSE garbage

\* an unchecked read of the flat buffer p at 0-based index i
ReadFlat(p, i, garbage) ==
    IF i < Len(p) THEN p[i + 1] ELSE garbage

A(c) == inputs[c][1]
B(c) == inputs[c][2]

\* ------------------------------------ MatrixAddOp<CPUDevice>::Compute (l.90)
\* l.93-116: tensor<Dtype, 4>() CHECK-fails on another rank; the output is
\* requested with the four dimensions of matrix_a
CpuForwardEnter(c) ==
    /\ kernelClass = "MatrixAddOp<CPU>"
    /\ pc[c] = "enter"
    /\ IF Len(A(c).shape) # RequiredRank \/ Len(B(c).shape) # RequiredRank
          THEN /\ pc' = [pc EXCEPT ![c] = "aborted"]
               /\ UNCHANGED <<heap, outputs, status, allocLog>>
          ELSE \E ok \in BOOLEAN :
               /\ AllocateOutput(c, 1,
                      <<A(c).shape[1], A(c).shape[2], A(c).shape[3], A(c).shape[4]>>, ok)
               /\ pc' = [pc EXCEPT ![c] = OpRequiresOk(ok, "loop", "enter")]
    /\ UNCHANGED <<nodeVars, bias_, inputs, launched, ub>>

\* the elements the nested loops of l.118-122 leave in the output
CpuForwardData(dt, a, b, bias, garbage) ==
    [k \in 1..NumElements(a.shape) |->
        LET idx == CHOOSE i \in LoopCoords(a.shape) : Offset(a.shape, i) = k - 1
        IN  AddElement(dt, a.data[Offset(a.shape, idx) + 1], ReadAt(b, idx, garbage), bias)]

\* matrix_b_tensor(b, r, c, d) is read outside matrix_b's dimensions
CpuForwardReadsOutside(a, b) ==
    \E idx \in LoopCoords(a.shape) : ~InBounds(b.shape, idx)

CpuForwardLoopWritesBias(c) ==
    /\ kernelClass = "MatrixAddOp<CPU>"
    /\ pc[c] = "loop"
    /\ \E outcome \in UbOutcomes(CpuForwardReadsOutside(A(c), B(c))), g \in GarbageValues :
        /\ ub' = [ub EXCEPT ![c] = outcome # "none"]
        /\ IF outcome = "crash"
              THEN /\ pc' = [pc EXCEPT ![c] = "aborted"]
                   /\ heap' = heap
              ELSE /\ pc' = [pc EXCEPT ![c] = "done"]
                   /\ heap' = [heap EXCEPT ![c][outputs[c][1]] =
                         [@ EXCEPT !.data = CpuForwardData(dtype, A(c), B(c), bias_[1], g),
                                   !.init = [k \in DOMAIN @ |-> TRUE]]]
    /\ bias_' = <<bias_[1] + Unit>>
    /\ UNCHANGED <<nodeVars, inputs, outputs, status, allocLog, launched>>

\* l.118-122
CpuForwardLoop(c) ==
    /\ kernelClass = "MatrixAddOp<CPU>"
    /\ pc[c] = "loop"
    /\ \E outcome \in UbOutcomes(CpuForwardReadsOutside(A(c), B(c))), g \in GarbageValues :
        /\ ub' = [ub EXCEPT ![c] = outcome # "none"]
        /\ IF outcome = "crash"
              THEN /\ pc' = [pc EXCEPT ![c] = "aborted"]
                   /\ heap' = heap
              ELSE /\ pc' = [pc EXCEPT ![c] = "done"]
                   /\ heap' = [heap EXCEPT ![c][outputs[c][1]] =
                         [@ EXCEPT !.data = CpuForwardData(dtype, A(c), B(c), bias_[1], g),
                                   !.init = [k \in DOMAIN @ |-> TRUE]]]
    /\ UNCHANGED <<nodeVars, bias_, inputs, outputs, status, allocLog, launched>>

\* ----------------------------------- MatrixAddOp<GPUDevice>::Compute (l.141)
\* l.143-153: the output is requested with matrix_a.shape()
GpuForwardEnter(c) ==
    /\ kernelClass = "MatrixAddOp<GPU>"
    /\ pc[c] = "enter"
    /\ \E ok \in BOOLEAN :
        /\ AllocateOutput(c, 1, A(c).shape, ok)
        /\ pc' = [pc EXCEPT ![c] = OpRequiresOk(ok, "launch", "enter")]
    /\ UNCHANGED <<nodeVars, bias_, inputs, launched, ub>>

\* MatrixAddOpForwardCudaKernelLauncher(top, N, inA, inB, bias): the flat
\* sweep top[i] = inA[i] + inB[i] + bias over i < N
ForwardCudaKernelLauncher(n, inA, inB, bias, garbage) ==
    [k \in 1..n |-> inA[k] + ReadFlat(inB, k - 1, garbage) + bias]

\* l.155-161: N is matrix_a.NumElements()
GpuForwardLaunch(c) ==
    /\ kernelClass = "MatrixAddOp<GPU>"
    /\ pc[c] = "launch"
    /\ \E outcome \in UbOutcomes(NumElements(A(c).shape) > NumElements(B(c).shape)),
          g \in GarbageValues :
        /\ ub' = [ub EXCEPT ![c] = outcome # "none"]
        /\ IF outcome = "crash"
              THEN /\ pc' = [pc EXCEPT ![c] = "aborted"]
                   /\ heap' = heap
              ELSE /\ pc' = [pc EXCEPT ![c] = "done"]
                   /\ heap' = [heap EXCEPT ![c][outputs[c][1]] =
                         [@ EXCEPT !.data = ForwardCudaKernelLauncher(
                                                NumElements(A(c).shape), A(c).data,
                                                B(c).data, bias_[1], g),
                                   !.init = [k \in DOMAIN @ |-> TRUE]]]
    /\ launched' = [launched EXCEPT ![c] = @ + 1]
    /\ UNCHANGED <<nodeVars, bias_, inputs, outputs, status, allocLog>>

G(c) == inputs[c][1]
FeaturesA(c) == inputs[c][2]
FeaturesB(c) == inputs[c][3]

\* -------------------------------- MatrixAddGradOp<CPUDevice>::Compute (l.178)
\* l.186-187: features is input(1)
CpuGradAllocA(c) ==
    /\ kernelClass = "MatrixAddGradOp<CPU>"
    /\ pc[c] = "enter"
    /\ \E ok \in BOOLEAN :
        /\ AllocateOutput(c, 1, FeaturesA(c).shape, ok)
        /\ pc' = [pc EXCEPT ![c] = OpRequiresOk(ok, "zeroA", "enter")]
    /\ UNCHANGED <<nodeVars, bias_, inputs, launched, ub>>

\* l.188
CpuGradZeroA(c) ==
    /\ kernelClass = "MatrixAddGradOp<CPU>"
    /\ pc[c] = "zeroA"
    /\ heap' = [heap EXCEPT ![c][outputs[c][1]] = SetZero(@)]
    /\ pc' = [pc EXCEPT ![c] = "allocB"]
    /\ UNCHANGED <<nodeVars, bias_, inputs, outputs, status, allocLog, launched, ub>>

\* l.190-191: the second output is requested with features.shape() as well
CpuGradAllocB(c) ==
    /\ kernelClass = "MatrixAddGradOp<CPU>"
    /\ pc[c] = "allocB"
    /\ \E ok \in BOOLEAN :
        /\ AllocateOutput(c, 2, FeaturesA(c).shape, ok)
        /\ pc' = [pc EXCEPT ![c] = OpRequiresOk(ok, "zeroB", "allocB")]
    /\ UNCHANGED <<nodeVars, bias_, inputs, launched, ub>>

\* l.192
CpuGradZeroB(c) ==
    /\ kernelClass = "MatrixAddGradOp<CPU>"
    /\ pc[c] = "zeroB"
    /\ heap' = [heap EXCEPT ![c][outputs[c][2]] = SetZero(@)]
    /\ pc' = [pc EXCEPT ![c] = "fill"]
    /\ UNCHANGED <<nodeVars, bias_, inputs, outputs, status, allocLog, launched, ub>>

CpuGradFillBufferShort(buf, g, n) ==
    [buf EXCEPT !.data = [k \in DOMAIN @ |-> IF k <= n - 1 THEN g[k] ELSE @[k]],
                !.init = [k \in DOMAIN @ |-> IF k <= n - 1 THEN TRUE ELSE @[k]]]

\* what the loop of l.197-200 leaves in one gradient buffer: ptr[i] =
\* topdiff_ptr[i] for i < N, as far as the buffer reaches
CpuGradFillBuffer(buf, g, n) ==
    [buf EXCEPT !.data = [k \in DOMAIN @ |-> IF k <= n THEN g[k] ELSE @[k]],
                !.init = [k \in DOMAIN @ |-> IF k <= n THEN TRUE ELSE @[k]]]

\* l.194-200: N is top_diff.NumElements(); a write at i past a buffer's end
\* is undefined behaviour
CpuGradFill(c) ==
    /\ kernelClass = "MatrixAddGradOp<CPU>"
    /\ pc[c] = "fill"
    /\ LET n == NumElements(G(c).shape)
       IN  \E outcome \in UbOutcomes(n > NumElements(FeaturesA(c).shape)) :
            /\ ub' = [ub EXCEPT ![c] = outcome # "none"]
            /\ IF outcome = "crash"
                  THEN /\ pc' = [pc EXCEPT ![c] = "aborted"]
                       /\ heap' = heap
                  ELSE /\ pc' = [pc EXCEPT ![c] = "done"]
                       /\ heap' = [heap EXCEPT
                             ![c][outputs[c][1]] = CpuGradFillBuffer(@, G(c).data, n),
                             ![c][outputs[c][2]] = CpuGradFillBuffer(@, G(c).data, n)]
    /\ UNCHANGED <<nodeVars, bias_, inputs, outputs, status, allocLog, launched>>

\* -------------------------------- MatrixAddGradOp<GPUDevice>::Compute (l.215)
\* l.223-224
GpuGradAllocA(c) ==
    /\ kernelClass = "MatrixAddGradOp<GPU>"
    /\ pc[c] = "enter"
    /\ \E ok \in BOOLEAN :
        /\ AllocateOutput(c, 1, FeaturesA(c).shape, ok)
        /\ pc' = [pc EXCEPT ![c] = OpRequiresOk(ok, "allocB", "enter")]
    /\ UNCHANGED <<nodeVars, bias_, inputs, launched, ub>>

\* l.225-226: the second output is requested with matrix_b.shape()
GpuGradAllocB(c) ==
    /\ kernelClass = "MatrixAddGradOp<GPU>"
    /\ pc[c] = "allocB"
    /\ \E ok \in BOOLEAN :
        /\ AllocateOutput(c, 2, FeaturesB(c).shape, ok)
        /\ pc' = [pc EXCEPT ![c] = OpRequiresOk(ok, "launch", "allocB")]
    /\ UNCHANGED <<nodeVars, bias_, inputs, launched, ub>>

\* MatrixAddOpBackwardCudaKernelLauncher(top_diff, N, inA, inB, grad_a,
\* grad_b): the pass-through grad_a[i] = grad_b[i] = top_diff[i] over i < N,
\* in one launch; inA and inB are not read
BackwardCudaKernelLauncher(g, n, bufA, bufB) ==
    << [bufA EXCEPT !.data = [k \in DOMAIN @ |-> IF k <= n THEN g[k] ELSE @[k]],
                    !.init = [k \in DOMAIN @ |-> IF k <= n THEN TRUE ELSE @[k]]],
       [bufB EXCEPT !.data = [k \in DOMAIN @ |-> IF k <= n THEN g[k] ELSE @[k]],
                    !.init = [k \in DOMAIN @ |-> IF k <= n THEN TRUE ELSE @[k]]] >>

\* l.221, 228-230: N is top_diff.shape().num_elements()
GpuGradLaunch(c) ==
    /\ kernelClass = "MatrixAddGradOp<GPU>"
    /\ pc[c] = "launch"
    /\ LET n == NumElements(G(c).shape)
           r == BackwardCudaKernelLauncher(G(c).data, n, heap[c][outputs[c][1]],
                                           heap[c][outputs[c][2]])
       IN  \E outcome \in UbOutcomes(n > NumElements(FeaturesA(c).shape)
                                     \/ n > NumElements(FeaturesB(c).shape)) :
            /\ ub' = [ub EXCEPT ![c] = outcome # "none"]
            /\ IF outcome = "crash"
                  THEN /\ pc' = [pc EXCEPT ![c] = "aborted"]
                       /\ heap' = heap
                  ELSE /\ pc' = [pc EXCEPT ![c] = "done"]
                       /\ heap' = [heap EXCEPT ![c][outputs[c][1]] = r[1],
                                               ![c][outputs[c][2]] = r[2]]
    /\ launched' = [launched EXCEPT ![c] = @ + 1]
    /\ UNCHANGED <<nodeVars, bias_, inputs, outputs, status, allocLog>>

\* ------------------------------------------------------------ specification
Next ==
    \/ TypeCheck
    \/ ShapeInference
    \/ Construct
    \/ \E c \in Calls : Feed(c)
    \/ \E c \in Calls : CpuForwardEnter(c)
    \/ \E c \in Calls : CpuForwardLoop(c)
    \/ \E c \in Calls : GpuForwardEnter(c)
    \/ \E c \in Calls : GpuForwardLaunch(c)
    \/ \E c \in Calls : CpuGradAllocA(c)
    \/ \E c \in Calls : CpuGradZeroA(c)
    \/ \E c \in Calls : CpuGradAllocB(c)
    \/ \E c \in Calls : CpuGradZeroB(c)
    \/ \E c \in Calls : CpuGradFill(c)
    \/ \E c \in Calls : GpuGradAllocA(c)
    \/ \E c \in Calls : GpuGradAllocB(c)
    \/ \E c \in Calls : GpuGradLaunch(c)

Spec ==
    Init /\ [][Next]_vars

\* the shape function alone, over every pair of descriptors
InitShape ==
    /\ op = "MatrixAdd"
    /\ device = "CPU"
    /\ dtype = "float"
    /\ attrBias = 0
    /\ inDesc \in [1..2 -> ShapeFnDescs]
    /\ InitNode
    /\ InitCalls({1})

NextShape ==
    ShapeInference

SpecShape ==
    InitShape /\ [][NextShape]_vars

\* one kernel instance of a well-formed node, Compute called concurrently
ConcCalls ==
    {1, 2}

InitConc ==
    /\ op \in {"MatrixAdd", "MatrixAddGrad"}
    /\ device \in Devices
    /\ dtype \in {"int32", "float"}
    /\ attrBias \in BiasValues
    /\ \E s \in {t \in RuntimeShapes : NumElements(t) = MaxDim} :
          inDesc = [i \in 1..(IF op = "MatrixAdd" THEN 2 ELSE 3) |-> KnownDesc(s)]
    /\ InitNode
    /\ InitCalls(ConcCalls)

SpecConc ==
    InitConc /\ [][Next]_vars

\* ------------------------------------------------------------------ claims
Out(c, slot) ==
    heap[c][outputs[c][slot]]

FullyWritten(buf) ==
    \A k \in DOMAIN buf.init : buf.init[k]

Returned(c) ==
    pc[c] = "done" /\ status[c] = "OK"

SupportedTypes ==
    {"int32", "float", "double"}

\* C1: for inputs A and B of identical rank-4 shape, every bias and every
\* supported element type, a forward call that returns leaves an output of
\* the shape of A with output[i] = A[i] + B[i] + bias at every flat index.
C1_ForwardSum ==
    \A c \in Calls :
        (/\ op = "MatrixAdd"
         /\ Returned(c)
         /\ Len(A(c).shape) = RequiredRank
         /\ A(c).shape = B(c).shape)
        => /\ Out(c, 1).shape = A(c).shape
           /\ \A k \in DOMAIN A(c).data :
                Out(c, 1).data[k] = A(c).data[k] + B(c).data[k] + attrBias

\* C2: for an upstream gradient G of the shape of A and B, a gradient call
\* that returns leaves grad_A[i] = G[i] and grad_B[i] = G[i] at every flat
\* index, on the CPU and on the GPU path.
C2_GradPassThrough ==
    \A c \in Calls :
        (/\ op = "MatrixAddGrad"
         /\ Returned(c)
         /\ G(c).shape = FeaturesA(c).shape
         /\ G(c).shape = FeaturesB(c).shape)
        => \A slot \in {1, 2} :
              /\ Out(c, slot).shape = G(c).shape
              /\ FullyWritten(Out(c, slot))
              /\ Out(c, slot).data = G(c).data

C2_Witness ==
    \E c \in Calls :
        /\ kernelClass = "MatrixAddGradOp<CPU>"
        /\ Returned(c)
        /\ G(c).shape = FeaturesA(c).shape
        /\ G(c).shape = FeaturesB(c).shape
        /\ NumElements(G(c).shape) >= 2

RankKnown(d) ==
    d.rank # UnknownRank

\* the descriptors a and b name two different known sizes for one dimension
DimsConflict(a, b) ==
    /\ a.rank = RequiredRank
    /\ b.rank = RequiredRank
    /\ \E i \in 1..RequiredRank :
          /\ a.dims[i] # UnknownDim
          /\ b.dims[i] # UnknownDim
          /\ a.dims[i] # b.dims[i]

\* C3 as stated: shape inference fails whenever an input does not have
\* exactly 4 dimensions or the two input shapes differ in a dimension, and
\* the output shape is the input shape when it succeeds.
C3_ShapeFnAsStated ==
    /\ shapeStatus \in {"pending", "OK", "ShapeMismatch"}
    /\ shapeStatus = "OK" =>
          /\ inDesc[1].rank = RequiredRank
          /\ inDesc[2].rank = RequiredRank
          /\ inDesc[1] = inDesc[2]
          /\ outDesc = inDesc[1]

\* C3 amended: shape inference fails with ShapeMismatch exactly when an
\* input has a known rank other than 4 or some dimension is known in both
\* inputs with different sizes; an unknown rank or dimension matches
\* anything.  When it succeeds the output is the rank-4 shape with the
\* dimensions of input 0, unknown where input 0 leaves them unknown.
C3_ShapeFn ==
    (op = "MatrixAdd" /\ shapeStatus # "pending") =>
        LET a == inDesc[1]
            b == inDesc[2]
            bad == \/ RankKnown(a) /\ a.rank # RequiredRank
                   \/ RankKnown(b) /\ b.rank # RequiredRank
                   \/ DimsConflict(a, b)
        IN  /\ shapeStatus = (IF bad THEN "ShapeMismatch" ELSE "OK")
            /\ shapeStatus = "OK" =>
                  /\ outDesc.rank = RequiredRank
                  /\ \A i \in 1..RequiredRank :
                        outDesc.dims[i] =
                            (IF RankKnown(a) THEN a.dims[i] ELSE UnknownDim)
                  /\ (\A i \in 1..RequiredRank : RankKnown(a) /\ a.dims[i] # UnknownDim)
                        => outDesc = a

\* two fully known rank-4 shapes that differ in the last dimension only
C3_Witness ==
    /\ shapeStatus = "ShapeMismatch"
    /\ inDesc[1].rank = RequiredRank
    /\ inDesc[2].rank = RequiredRank
    /\ \A i \in 1..RequiredRank :
          /\ inDesc[1].dims[i] # UnknownDim
          /\ inDesc[2].dims[i] # UnknownDim
          /\ (inDesc[1].dims[i] = inDesc[2].dims[i]) <=> (i < RequiredRank)

\* C4: whenever a forward Compute has requested its output or reads input
\* elements, A and B are rank-4 tensors with pairwise-equal dimensions, and
\* no read leaves B's bounds.
C4_EqualShapesInKernel ==
    \A c \in Calls :
        (op = "MatrixAdd" /\ Len(allocLog[c]) > 0)
        => /\ Len(A(c).shape) = RequiredRank
           /\ A(c).shape = B(c).shape
           /\ ~ub[c]

\* C5: the registry holds exactly one kernel for every (op, device, type)
\* with type among int32, float32, float64 and nothing else; a node of any
\* other element type is refused with TypeNotSupported, no kernel instance
\* is made for it and no Compute starts.
RegistryExact ==
    /\ \A o \in {"MatrixAdd", "MatrixAddGrad"}, d \in Devices, t \in DTypes :
          Cardinality(Registrations(o, d, t)) = (IF t \in SupportedTypes THEN 1 ELSE 0)
    /\ \A i \in DOMAIN KernelRegistry :
          /\ KernelRegistry[i].op \in {"MatrixAdd", "MatrixAddGrad"}
          /\ KernelRegistry[i].device \in Devices
          /\ KernelRegistry[i].dtype \in SupportedTypes
          /\ KernelRegistry[i].kernel =
                (IF KernelRegistry[i].op = "MatrixAdd" THEN "MatrixAddOp<" ELSE "MatrixAddGradOp<")
                    \o KernelRegistry[i].device \o ">"

C5_Registry ==
    /\ RegistryExact
    /\ typeStatus = "OK" =>
          kernelClass = (IF op = "MatrixAdd" THEN "MatrixAddOp<" ELSE "MatrixAddGradOp<")
                            \o device \o ">"
    /\ dtype \notin SupportedTypes =>
          /\ typeStatus \in {"pending", "TypeNotSupported"}
          /\ kernelClass = "none"
          /\ ~created
          /\ \A c \in Calls : pc[c] = "idle"

C5_Witness ==
    /\ dtype = "int64"
    /\ typeStatus = "TypeNotSupported"
    /\ shapeStatus = "OK"

\* C6: a call that returns without error has every output allocated, every
\* element of it written, and every element holding the specified value
\* (A[i] + B[i] + bias forward, G[i] in both gradient outputs).
C6_NoPartialSuccess ==
    \A c \in Calls :
        Returned(c) =>
            IF op = "MatrixAdd"
                THEN /\ outputs[c][1] # 0
                     /\ FullyWritten(Out(c, 1))
                     /\ DOMAIN Out(c, 1).data = DOMAIN A(c).data
                     /\ \A k \in DOMAIN A(c).data :
                          /\ k \in DOMAIN B(c).data
                          /\ Out(c, 1).data[k] = A(c).data[k] + B(c).data[k] + attrBias
                ELSE \A slot \in {1, 2} :
                     /\ outputs[c][slot] # 0
                     /\ FullyWritten(Out(c, slot))
                     /\ Out(c, slot).data = G(c).data

Zeroed(buf) ==
    \A k \in DOMAIN buf.data : buf.init[k] /\ buf.data[k] = 0

Untouched(buf) ==
    \A k \in DOMAIN buf.init : ~buf.init[k]

TwoBuffers(c) ==
    /\ outputs[c][1] # 0
    /\ outputs[c][2] # 0
    /\ outputs[c][1] # outputs[c][2]

\* C7 as stated: on the CPU and on the GPU path, when the gradient operator
\* is about to write the elements of G, grad_A and grad_B are two separately
\* allocated buffers and each has been zero-initialized.
C7_ZeroInitAsStated ==
    \A c \in Calls :
        (op = "MatrixAddGrad" /\ pc[c] \in {"fill", "launch"})
        => /\ TwoBuffers(c)
           /\ Zeroed(Out(c, 1))
           /\ Zeroed(Out(c, 2))

\* C7 amended: on both paths grad_A and grad_B are two separately allocated
\* buffers.  On the CPU path each is zero-initialized after its allocation
\* and before any element of G is written into it.  On the GPU path Compute
\* hands both buffers to the launcher without having initialized any element.
C7_ZeroInit ==
    \A c \in Calls :
        /\ (op = "MatrixAddGrad" /\ pc[c] \in {"fill", "launch"}) => TwoBuffers(c)
        /\ kernelClass = "MatrixAddGradOp<CPU>" =>
              /\ pc[c] = "zeroA" => Untouched(Out(c, 1))
              /\ pc[c] \in {"allocB", "zeroB", "fill"} => Zeroed(Out(c, 1))
              /\ pc[c] = "zeroB" => Untouched(Out(c, 2))
              /\ pc[c] = "fill" => Zeroed(Out(c, 2))
        /\ (kernelClass = "MatrixAddGradOp<GPU>" /\ pc[c] = "launch") =>
              /\ Untouched(Out(c, 1))
              /\ Untouched(Out(c, 2))

C7_Witness ==
    \E c \in Calls :
        /\ kernelClass = "MatrixAddGradOp<CPU>"
        /\ pc[c] = "fill"
        /\ Len(Out(c, 1).data) >= 2
        /\ Len(Out(c, 2).data) >= 2

\* the output data Compute gives for the inputs of call c when it runs alone
ComputeAlone(c) ==
    CASE kernelClass = "MatrixAddOp<CPU>" ->
            <<CpuForwardData(dtype, A(c), B(c), attrBias, 0)>>
      [] kernelClass = "MatrixAddOp<GPU>" ->
            <<ForwardCudaKernelLauncher(NumElements(A(c).shape), A(c).data, B(c).data,
                                        attrBias, 0)>>
      [] OTHER -> <<G(c).data, G(c).data>>

\* C8: bias_ is set by the constructor and holds the attribute's value ever
\* after, no Compute writes it; with Compute calls on one instance
\* interleaved in any way, each call that returns has the output it gives
\* when run alone.
C8_ConcurrentCompute ==
    /\ bias_ = (IF created /\ op = "MatrixAdd" THEN <<attrBias>> ELSE <<>>)
    /\ \A c \in Calls :
          Returned(c) =>
              \A slot \in 1..Len(ComputeAlone(c)) :
                  /\ outputs[c][slot] # 0
                  /\ FullyWritten(Out(c, slot))
                  /\ Out(c, slot).data = ComputeAlone(c)[slot]

\* call 1 has returned while call 2, on other data, is inside its loop
C8_Witness ==
    /\ kernelClass = "MatrixAddOp<CPU>"
    /\ Cardinality(Calls) = 2
    /\ Returned(1)
    /\ pc[2] = "loop"
    /\ inputs[1] # inputs[2]

\* C9: a forward call requests one output, of the shape of input A, and
\* never a second one.  When an allocation fails (forward, or the first or
\* second of the gradient), the call carries the error, has returned, made
\* no later allocation request, launched no kernel and wrote no element of
\* G or of the sum into any buffer.
C9_AllocationFailure ==
    \A c \in Calls :
        /\ op = "MatrixAdd" =>
              /\ Len(allocLog[c]) <= 1
              /\ pc[c] \in {"loop", "launch", "done"} =>
                    /\ Len(allocLog[c]) = 1
                    /\ allocLog[c][1].slot = 1
                    /\ allocLog[c][1].shape = A(c).shape
        /\ op = "MatrixAddGrad" => Len(allocLog[c]) <= 2
        /\ \A i \in 1..Len(allocLog[c]) :
              ~allocLog[c][i].ok => (i = Len(allocLog[c]) /\ status[c] = "AllocationFailure")
        /\ status[c] # "OK" =>
              /\ status[c] = "AllocationFailure"
              /\ pc[c] = "done"
              /\ Len(allocLog[c]) >= 1
              /\ ~allocLog[c][Len(allocLog[c])].ok
              /\ Len(heap[c]) = Len(allocLog[c]) - 1
              /\ launched[c] = 0
              /\ \A b \in 1..Len(heap[c]) : \A k \in DOMAIN heap[c][b].data :
                    heap[c][b].data[k] = 0

\* the second allocation of the CPU gradient kernel has failed
C9_Witness ==
    \E c \in Calls :
        /\ kernelClass = "MatrixAddGradOp<CPU>"
        /\ status[c] = "AllocationFailure"
        /\ Len(allocLog[c]) = 2

\* C10: the CPU gradient kernel writes inside the buffers it allocated, and
\* grad_A has the shape of A, grad_B the shape of B.
C10_GradWritesInside ==
    \A c \in Calls :
        kernelClass = "MatrixAddGradOp<CPU>" =>
            /\ ~ub[c]
            /\ outputs[c][1] # 0 => Out(c, 1).shape = FeaturesA(c).shape
            /\ outputs[c][2] # 0 => Out(c, 2).shape = FeaturesB(c).shape

====
